---- MODULE Spec2Model ----
(***************************************************************************)
(* Model of mergefiles.py: the Table record store (Table.add), the address *)
(* grouping of add_addresses and the ingestion loop of main().             *)
(*                                                                         *)
(* Strings whose characters matter (names, column names) are sequences;    *)
(* a person's name is a sequence of one-character strings, a column name   *)
(* is the sequence of its space-separated words.  Cell values that are     *)
(* only compared, tested for emptiness or concatenated are TLA+ strings.   *)
(* Python's None is the value None below, distinct from the empty string.  *)
(***************************************************************************)
EXTENDS Integers, Sequences, FiniteSets, TLC

\* ------------------------------------------------------------------------
\* Bounds
\* ------------------------------------------------------------------------
\* number of Table.add calls made on one Table
MaxCalls == 3

\* number of source rows that main() ingests
MaxRows == 2

\* number of times zip_to_zipcode is applied to one header row
MaxApplied == 2

\* files in the directory given to main()
MaxFiles == 3

\* source tables that main() opens
MaxTables == 2

\* ------------------------------------------------------------------------
\* Values
\* ------------------------------------------------------------------------
None == "<None>"

\* Python truthiness of an optional string: None and "" are falsy
Truthy(x) == x # None /\ x # ""

COLUMNS == <<"Name - First", "Name - Last", "Email Address", "Phone Number",
             "Mailing Address", "City", "State", "Zip", "Alternate name",
             "Alt email", "Alt phone">>

\* position, in a row tuple, of the column that iloc addresses by c
\* (0-based, negative counts from the end)
ColPos(c) == IF c >= 0 THEN c + 1 ELSE Len(COLUMNS) + 1 + c

\* str.lower() on one character
LowerChar(c) ==
    CASE c = "A" -> "a" [] c = "B" -> "b" [] c = "C" -> "c" [] c = "D" -> "d"
      [] c = "E" -> "e" [] c = "F" -> "f" [] c = "G" -> "g" [] c = "H" -> "h"
      [] c = "I" -> "i" [] c = "J" -> "j" [] c = "K" -> "k" [] c = "L" -> "l"
      [] c = "M" -> "m" [] c = "N" -> "n" [] c = "O" -> "o" [] c = "P" -> "p"
      [] c = "Q" -> "q" [] c = "R" -> "r" [] c = "S" -> "s" [] c = "T" -> "t"
      [] c = "U" -> "u" [] c = "V" -> "v" [] c = "W" -> "w" [] c = "X" -> "x"
      [] c = "Y" -> "y" [] c = "Z" -> "z"
      [] OTHER -> c

\* str.lower() on a name
Lower(s) == [i \in DOMAIN s |-> LowerChar(s[i])]

\* Column names, phone cells and file names are TLA+ strings; the operators
\* below are Python's string methods on them.

\* s.startswith(p)
StartsWith(s, p) == Len(p) <= Len(s) /\ SubSeq(s, 1, Len(p)) = p

\* p in s, for a non-empty p
Contains(s, p) ==
    \E i \in 1..(Len(s) - Len(p) + 1) : SubSeq(s, i, i + Len(p) - 1) = p

\* s.replace(old, new): the occurrences found from left to right
RECURSIVE Replace(_, _, _)
Replace(s, old, new) ==
    IF s = "" THEN ""
    ELSE IF StartsWith(s, old)
         THEN new \o Replace(SubSeq(s, Len(old) + 1, Len(s)), old, new)
         ELSE SubSeq(s, 1, 1) \o Replace(Tail(s), old, new)

\* the characters in s.split(sep)[0], for a one-character sep
RECURSIVE UpTo(_, _)
UpTo(s, sep) ==
    IF s = "" \/ SubSeq(s, 1, 1) = sep THEN ""
    ELSE SubSeq(s, 1, 1) \o UpTo(Tail(s), sep)

\* s.split(sep), for a one-character sep
RECURSIVE Split(_, _)
Split(s, sep) ==
    LET head == UpTo(s, sep)
    IN  IF Len(head) = Len(s) THEN <<s>>
        ELSE <<head>> \o Split(SubSeq(s, Len(head) + 2, Len(s)), sep)

\* s.lstrip(chars) and s.rstrip(chars), chars given as a set of characters
RECURSIVE LStrip(_, _)
LStrip(s, chars) ==
    IF s # "" /\ SubSeq(s, 1, 1) \in chars THEN LStrip(Tail(s), chars) ELSE s

RECURSIVE RStrip(_, _)
RStrip(s, chars) ==
    IF s # "" /\ SubSeq(s, Len(s), Len(s)) \in chars
    THEN RStrip(SubSeq(s, 1, Len(s) - 1), chars)
    ELSE s

\* s.strip(chars)
StripChars(s, chars) == RStrip(LStrip(s, chars), chars)

\* the characters of s that are not in chars, in order
RECURSIVE Without(_, _)
Without(s, chars) ==
    IF s = "" THEN ""
    ELSE IF SubSeq(s, 1, 1) \in chars THEN Without(Tail(s), chars)
    ELSE SubSeq(s, 1, 1) \o Without(Tail(s), chars)

\* the printable ASCII characters in code order, from the blank (32) on;
\* the backquote (96), which a TLA+ string cannot hold, is left out
Ascii ==
    " !\"#$%&'()*+,-./0123456789:;<=>?@ABCDEFGHIJKLMNOPQRSTUVWXYZ[\\]^_abcdefghijklmnopqrstuvwxyz{|}~"

\* the rank of character c in code order
Ord(c) == CHOOSE i \in 1..Len(Ascii) : SubSeq(Ascii, i, i) = c

\* a < b on strings
RECURSIVE StrLess(_, _)
StrLess(a, b) ==
    IF b = "" THEN FALSE
    ELSE IF a = "" THEN TRUE
    ELSE IF SubSeq(a, 1, 1) = SubSeq(b, 1, 1) THEN StrLess(Tail(a), Tail(b))
    ELSE Ord(SubSeq(a, 1, 1)) < Ord(SubSeq(b, 1, 1))

\* ------------------------------------------------------------------------
\* Inputs of Table.add
\* ------------------------------------------------------------------------
\* "Jo Sm" in three spellings: as is, in capitals, with a trailing blank
NamePairs ==
    { << <<"J","o">>,     <<"S","m">> >>,
      << <<"J","O">>,     <<"S","M">> >>,
      << <<"j","o"," ">>, <<"S","m">> >> }

\* (email, phone) arguments
ChannelArgs ==
    { <<e, None>> : e \in {"", "e1", "e2", "e3"} } \cup
    { <<None, p>> : p \in {"p1", "p2", "p3"} } \cup
    { <<"", "">>, <<"e1", "p1">> }

NoAddress == <<None, None, None, None>>

\* (address, city, state, zipcode) arguments
AddressArgs ==
    { <<"", "c0", "s0", "z0">>,
      <<"a1", "c1", "s1", "z1">>,
      <<"a2", "c2", "", "z2">> }

\* the calls: [first, last, email, phone, address, city, state, zipcode]
Call(np, ch, ad) ==
    [first |-> np[1], last |-> np[2], email |-> ch[1], phone |-> ch[2],
     address |-> ad[1], city |-> ad[2], state |-> ad[3], zipcode |-> ad[4]]

Calls ==
    { Call(np, ch, NoAddress) : np \in NamePairs, ch \in ChannelArgs } \cup
    { Call(np, <<None, None>>, ad) : np \in NamePairs, ad \in AddressArgs } \cup
    { Call(np, <<"e1", "p2">>, <<"a1", "c1", "s1", "z1">>) : np \in NamePairs }

\* ------------------------------------------------------------------------
\* State
\* ------------------------------------------------------------------------
VARIABLES
    data,     \* Table.data: the rows of the DataFrame, in COLUMNS order
    out,      \* what the most recent call printed
    err,      \* None, or the exception that ended the run
    ncalls,   \* number of add calls made
    call,     \* the arguments of the most recent call
    changed,  \* whether the most recent call modified Table.data
    observed, \* per identity key, the values the calls so far have passed
    pc,       \* where main() is: "ingest", "done" (file written), "failed"
    nrows,    \* number of source rows ingested
    row,      \* the source row ingested last
    final,    \* the rows written to the output file
    informed, \* the identity keys some row had a non-empty contact cell for
    dataB,    \* Table.data of a second run of main() over the same rows
    finalB,   \* the rows the second run writes
    header,   \* the header row of the source table opened last, as read
    ntables,  \* number of source tables opened
    table,    \* the source table being ingested, as read from its file
    curr,     \* main()'s curr: the rows of that table after the header functions
    pos,      \* the position in curr of the row the loop ingests next
    columns,  \* df.columns of the table handed to zip_to_zipcode
    napplied, \* number of times zip_to_zipcode was applied to columns
    files,    \* the csv files in the order glob lists them
    ordered   \* what get_files_in_chron_order returned

tablevars == <<data, out, err, ncalls, call, changed, observed>>
mainvars == <<pc, nrows, row, final, informed, dataB, finalB>>
currvars == <<header, ntables, table, curr, pos>>
purevars == <<columns, napplied, files, ordered>>
vars == <<data, out, err, ncalls, call, changed, observed,
          pc, nrows, row, final, informed, dataB, finalB,
          header, ntables, table, curr, pos, columns, napplied, files,
          ordered>>

\* ------------------------------------------------------------------------
\* Mutations of the merge code, used to test the properties below
\* ------------------------------------------------------------------------
\* entrymask comparing the names as written
EntryMaskCaseSensitive(d, first, last) ==
    { i \in 1..Len(d) : /\ d[i][1] = first
                        /\ d[i][2] = last }

\* email branch that stores every differing email in the alternate slot
MergeEmailOverwritesAlternate(tb, rowi, a) ==
    IF ~Truthy(a.email) THEN tb
    ELSE IF ~Truthy(tb.data[rowi][3])
         THEN [tb EXCEPT !.data[rowi][3] = a.email]
    ELSE IF tb.data[rowi][3] # a.email
         THEN [tb EXCEPT !.data[rowi][10] = a.email]
    ELSE tb

\* email branch that reports every email differing from the primary once
\* the alternate slot is taken, the alternate's own value included
MergeEmailReportsHeld(tb, rowi, a) ==
    IF ~Truthy(a.email) THEN tb
    ELSE IF ~Truthy(tb.data[rowi][3])
         THEN [tb EXCEPT !.data[rowi][3] = a.email]
    ELSE IF tb.data[rowi][3] # a.email
         THEN IF tb.data[rowi][10] = None
              THEN [tb EXCEPT !.data[rowi][10] = a.email]
              ELSE [tb EXCEPT !.out = Append(tb.out,
                       <<"Two emails already exist for",
                         a.first, a.last, a.email>>)]
    ELSE tb

\* phone branch that puts the newest phone in the primary slot
MergePhoneOverwritesPrimary(tb, rowi, a) ==
    IF ~Truthy(a.phone) THEN tb
    ELSE [tb EXCEPT !.data[rowi][4] = a.phone]

\* phone branch without the test that a phone was passed
MergePhoneUnguarded(tb, rowi, a) ==
    IF ~Truthy(tb.data[rowi][4])
    THEN [tb EXCEPT !.data[rowi][4] = a.phone]
    ELSE IF tb.data[rowi][4] # a.phone
         THEN IF tb.data[rowi][11] = None
              THEN [tb EXCEPT !.data[rowi][11] = a.phone]
              ELSE IF tb.data[rowi][11] # a.phone
                   THEN [tb EXCEPT !.out = Append(tb.out,
                            <<"Two phone numbers already exist for",
                              a.first, a.last, a.phone>>)]
                   ELSE tb
    ELSE tb

\* address branch that keeps an old cell where the new one is empty
MergeAddressCellwise(tb, rowi, a) ==
    IF a.address # None /\ a.address # ""
    THEN [tb EXCEPT
            !.data[rowi][5] = a.address,
            !.data[rowi][6] = IF a.city = "" THEN @ ELSE a.city,
            !.data[rowi][7] = IF a.state = "" THEN @ ELSE a.state,
            !.data[rowi][8] = IF a.zipcode = "" THEN @ ELSE a.zipcode]
    ELSE tb

\* row lookup that always answers the first row of the table
FirstIndexOfTable(mask) == 1

\* unify_phone that makes no row for the second number
SecondNumbersDropped(df) == <<>>

\* unify_phone that does not cut the phone cell down to 15 characters
First15Uncut(x) == x

\* make_first_last that does not look for the "first name" column
MakeFirstLastUnchecked(cols) == [cols |-> cols, err |-> None]

\* ------------------------------------------------------------------------
\* Table
\* ------------------------------------------------------------------------
\* Table.__getitem__ with (row, column); rows are numbered from 1 here
GetItem(d, rowi, c) == d[rowi][ColPos(c)]

\* Table.__setitem__ with (row, column)
SetItem(d, rowi, c, val) == [d EXCEPT ![rowi][ColPos(c)] = val]

\* entrymask of Table.add: the rows whose names match case-insensitively
EntryMask(d, first, last) ==
    { i \in 1..Len(d) : /\ Lower(d[i][ColPos(0)]) = Lower(first)
                        /\ Lower(d[i][ColPos(1)]) = Lower(last) }

\* the row that Table.add appends when no entry matches
NewRow(a) ==
    <<a.first, a.last, a.email, a.phone, a.address, a.city, a.state,
      a.zipcode, None, None, None>>

\* np.where(entrymask)[0][0]
FirstIndex(mask) == CHOOSE i \in mask : \A j \in mask : i <= j

\* the email branch of Table.add on row rowi; tb is [data, out]
MergeEmail(tb, rowi, a) ==
    IF ~Truthy(a.email) THEN tb
    ELSE IF ~Truthy(GetItem(tb.data, rowi, 2))
         THEN [tb EXCEPT !.data = SetItem(tb.data, rowi, 2, a.email)]
    ELSE IF GetItem(tb.data, rowi, 2) # a.email
         THEN IF GetItem(tb.data, rowi, -2) = None
              THEN [tb EXCEPT !.data = SetItem(tb.data, rowi, -2, a.email)]
              ELSE IF GetItem(tb.data, rowi, -2) # a.email
                   THEN [tb EXCEPT !.out = Append(tb.out,
                            <<"Two emails already exist for",
                              a.first, a.last, a.email>>)]
                   ELSE tb
    ELSE tb

\* the phone branch of Table.add
MergePhone(tb, rowi, a) ==
    IF ~Truthy(a.phone) THEN tb
    ELSE IF ~Truthy(GetItem(tb.data, rowi, 3))
         THEN [tb EXCEPT !.data = SetItem(tb.data, rowi, 3, a.phone)]
    ELSE IF GetItem(tb.data, rowi, 3) # a.phone
         THEN IF GetItem(tb.data, rowi, -1) = None
              THEN [tb EXCEPT !.data = SetItem(tb.data, rowi, -1, a.phone)]
              ELSE IF GetItem(tb.data, rowi, -1) # a.phone
                   THEN [tb EXCEPT !.out = Append(tb.out,
                            <<"Two phone numbers already exist for",
                              a.first, a.last, a.phone>>)]
                   ELSE tb
    ELSE tb

\* the address branch of Table.add
MergeAddress(tb, rowi, a) ==
    IF Truthy(a.address)
    THEN [tb EXCEPT !.data =
            SetItem(SetItem(SetItem(SetItem(tb.data, rowi, 4, a.address),
                                    rowi, 5, a.city),
                            rowi, 6, a.state),
                    rowi, 7, a.zipcode)]
    ELSE tb

\* Table.add: the table, the printed lines and the exception (None if it
\* returned) after the call with arguments a on the table d
TableAdd(d, a) ==
    LET entrymask == EntryMask(d, a.first, a.last)
    IN  IF Cardinality(entrymask) = 0
        THEN [data |-> Append(d, NewRow(a)), out |-> <<>>, err |-> None]
        ELSE IF Cardinality(entrymask) > 1
        THEN [data |-> d, out |-> <<>>,
              err |-> "ValueError: multiple entries exist"]
        ELSE LET rowi == FirstIndex(entrymask)
                 tb   == MergeAddress(
                            MergePhone(
                               MergeEmail([data |-> d, out |-> <<>>], rowi, a),
                               rowi, a),
                            rowi, a)
             IN  [data |-> tb.data, out |-> tb.out, err |-> None]

\* ------------------------------------------------------------------------
\* Specification: a sequence of Table.add calls on an empty Table
\* ------------------------------------------------------------------------
\* the identity key of a call or a row: the lower-cased names
Key(first, last) == <<Lower(first), Lower(last)>>

Keys == { Key(np[1], np[2]) : np \in NamePairs }

\* History variable "observed": what the calls so far passed for each
\* identity, recorded from the arguments alone; the properties compare the
\* table against it.
\* nothing observed yet for an identity
NoObservation ==
    [email1 |-> None, email2 |-> None, phone1 |-> None, phone2 |-> None,
     addr |-> <<>>]

\* first and second distinct non-empty value of a channel, in call order
Observe1(o1, v) == IF Truthy(v) /\ o1 = None THEN v ELSE o1
Observe2(o1, o2, v) ==
    IF Truthy(v) /\ o1 # None /\ v # o1 /\ o2 = None THEN v ELSE o2

\* the record of the arguments passed for one identity, after call a
Observe(o, a) ==
    [email1 |-> Observe1(o.email1, a.email),
     email2 |-> Observe2(o.email1, o.email2, a.email),
     phone1 |-> Observe1(o.phone1, a.phone),
     phone2 |-> Observe2(o.phone1, o.phone2, a.phone),
     addr   |-> IF Truthy(a.address)
                THEN <<a.address, a.city, a.state, a.zipcode>>
                ELSE o.addr]

\* the program before main() has read anything: Table.__init__
StartOfRun ==
    /\ data = <<>>
    /\ out = <<>>
    /\ err = None
    /\ ncalls = 0
    /\ call = Call(<< <<>>, <<>> >>, <<None, None>>, NoAddress)
    /\ changed = FALSE
    /\ observed = [k \in Keys |-> NoObservation]
    /\ pc = "ingest"
    /\ nrows = 0
    /\ row = <<>>
    /\ final = <<>>
    /\ informed = {}
    /\ dataB = <<>>
    /\ finalB = <<>>

\* no source table has been read
NoTable ==
    /\ header = <<>>
    /\ ntables = 0
    /\ table = <<>>
    /\ curr = <<>>
    /\ pos = 1

Init ==
    /\ StartOfRun
    /\ NoTable
    /\ columns = <<>>
    /\ napplied = 0
    /\ files = <<>>
    /\ ordered = <<>>

\* one call table.add(...)
Add ==
    /\ err = None
    /\ ncalls < MaxCalls
    /\ \E a \in Calls :
          LET r == TableAdd(data, a)
          IN  /\ data' = r.data
              /\ out' = r.out
              /\ err' = r.err
              /\ call' = a
              /\ changed' = (r.data # data)
              /\ observed' = [observed EXCEPT ![Key(a.first, a.last)] =
                                                    Observe(@, a)]
    /\ ncalls' = ncalls + 1
    /\ UNCHANGED <<mainvars, currvars, purevars>>

Next == Add

Spec == Init /\ [][Next]_vars

\* ------------------------------------------------------------------------
\* Source rows, as main() sees them after the header functions
\* ------------------------------------------------------------------------
\* A row maps column names to cells.  A column name is the sequence of its
\* words ("billing address 1" is <<"billing", "address", "1">>); a cell is a
\* string, a name cell a sequence of characters.

\* pandas NaN in a contact cell, and in a name cell
NaN == "<NaN>"
NaNName == <<"<NaN>">>

RowNamePairs ==
    { << <<"J","o">>, <<"S","m">> >>,
      << <<"J","O">>, <<"S","M">> >> }

\* name cells left empty: both, or the first name only
EmptyNamePairs ==
    { << <<>>, <<>> >>,
      << <<>>, <<"S","m">> >> }

\* cells of a "name" column
FullNames == { <<"J","o"," ","S","m">>, <<"J","o">> }

\* x.split(" ")[0] and " ".join(x.split(" ")[1:]) on a name
SplitName(x) ==
    LET blanks == { i \in DOMAIN x : x[i] = " " }
        cut == IF blanks = {} THEN Len(x) + 1
               ELSE CHOOSE i \in blanks : \A j \in blanks : i <= j
    IN  <<SubSeq(x, 1, cut - 1), SubSeq(x, cut + 1, Len(x))>>

\* (email, phone) cells
RowChannels == { <<"", "">>, <<"e1", "p1">> }

\* (address, city, state, zipcode) cells of one address group
RowGroups ==
    { <<"", "", "", "">>,
      <<"a1", "c1", "s1", "z1">>,
      <<"a2", "c2", "", "z2">> }

\* ("address 1", "address 2") cells
RowLines == { <<"", "">>, <<"12 Elm St", "Apt 4">> }

NameCells(np) ==
    (<<"first", "name">> :> np[1]) @@ (<<"last", "name">> :> np[2])

ChannelCells(ch) == (<<"email">> :> ch[1]) @@ (<<"phone">> :> ch[2])

\* the columns "<prefix> address", "<prefix> city", ... of one group
GroupCells(prefix, g) ==
    ((prefix \o <<"address">>) :> g[1]) @@ ((prefix \o <<"city">>) :> g[2]) @@
    ((prefix \o <<"state">>) :> g[3]) @@ ((prefix \o <<"zipcode">>) :> g[4])

\* a group whose street is split into "address 1" and "address 2"
LineCells(ln, g) ==
    (<<"address", "1">> :> ln[1]) @@ (<<"address", "2">> :> ln[2]) @@
    (<<"city">> :> g[2]) @@ (<<"state">> :> g[3]) @@ (<<"zipcode">> :> g[4])

\* the rows of tables with: names only; names and channels; a "name"
\* column and channels; one unprefixed address; address lines 1 and 2; a
\* billing and a home address
Rows ==
    { NameCells(np) : np \in RowNamePairs } \cup
    { NameCells(np) @@ ChannelCells(ch) :
         np \in RowNamePairs \cup EmptyNamePairs, ch \in RowChannels } \cup
    { (<<"name">> :> x) @@ NameCells(SplitName(x)) @@ ChannelCells(ch) :
         x \in FullNames, ch \in RowChannels } \cup
    { NameCells(np) @@ ChannelCells(ch) @@ GroupCells(<<>>, g) :
         np \in RowNamePairs, ch \in RowChannels, g \in RowGroups } \cup
    { NameCells(np) @@ ChannelCells(<<"", "">>) @@ LineCells(ln, g) :
         np \in RowNamePairs, ln \in RowLines,
         g \in { <<"", "", "", "">>, <<"", "c1", "s1", "z1">> } } \cup
    { NameCells(np) @@ ChannelCells(<<"", "">>) @@
      GroupCells(<<"billing">>, g) @@ GroupCells(<<"home">>, h) :
         np \in RowNamePairs, g \in RowGroups, h \in RowGroups }

\* ------------------------------------------------------------------------
\* add_addresses
\* ------------------------------------------------------------------------
\* the words of a column name
Words(x) == { x[i] : i \in DOMAIN x }

\* str.replace("1", "2") on a column name
Replace1By2(x) == [i \in DOMAIN x |-> IF x[i] = "1" THEN "2" ELSE x[i]]

\* str.strip(" 1") on a column name
RECURSIVE StripBlank1(_)
StripBlank1(x) ==
    IF x = <<>> THEN x
    ELSE IF Head(x) = "1" THEN StripBlank1(Tail(x))
    ELSE IF x[Len(x)] = "1" THEN StripBlank1(SubSeq(x, 1, Len(x) - 1))
    ELSE x

\* the columns with "address" in their name
AddressNames(r) == { x \in DOMAIN r : "address" \in Words(x) }

\* the "... address 1" columns
Line1Names(r) == { x \in AddressNames(r) : "1" \in Words(x) }

\* the row after the first loop: lines 1 and 2 joined by a blank under the
\* name without the "1"
WithJoinedLines(r) ==
    LET joined == { StripBlank1(x) : x \in Line1Names(r) }
    IN  [ c \in DOMAIN r \cup joined |->
            IF c \in joined
            THEN LET x == CHOOSE y \in Line1Names(r) : StripBlank1(y) = c
                 IN  r[x] \o " " \o r[Replace1By2(x)]
            ELSE r[c] ]

\* address_names after the first loop
GroupNames(r) ==
    (AddressNames(r) \ UNION { {x, Replace1By2(x)} : x \in Line1Names(r) })
       \cup { StripBlank1(x) : x \in Line1Names(r) }

\* the column that holds part ap of the group named address_name
PartColumn(address_name, ap) ==
    IF Len(address_name) = 1 THEN <<ap>> ELSE <<address_name[1], ap>>

\* the orders in which a for loop can visit the set S
Orders(S) ==
    { o \in [1..Cardinality(S) -> S] :
         \A i, j \in 1..Cardinality(S) : o[i] = o[j] => i = j }

\* the second loop from its k-th iteration on; tb is [data, out, err]
RECURSIVE AddGroups(_, _, _, _)
AddGroups(tb, r, order, k) ==
    IF k > Len(order) \/ tb.err # None THEN tb
    ELSE IF \E ap \in {"address", "city", "state", "zipcode"} :
               PartColumn(order[k], ap) \notin DOMAIN r
    THEN [tb EXCEPT !.err = "KeyError"]
    ELSE LET a == Call(<<r[<<"first", "name">>], r[<<"last", "name">>]>>,
                       <<None, None>>,
                       <<r[PartColumn(order[k], "address")],
                         r[PartColumn(order[k], "city")],
                         r[PartColumn(order[k], "state")],
                         r[PartColumn(order[k], "zipcode")]>>)
             t == TableAdd(tb.data, a)
         IN  AddGroups([data |-> t.data, out |-> tb.out \o t.out,
                        err |-> t.err], r, order, k + 1)

\* add_addresses(row, table), the for loop over the set address_names
\* visiting it in the given order
AddAddresses(tb, r, order) ==
    IF \E x \in Line1Names(r) : Replace1By2(x) \notin DOMAIN r
    THEN [tb EXCEPT !.err = "KeyError"]
    ELSE AddGroups(tb, WithJoinedLines(r), order, 1)

\* ------------------------------------------------------------------------
\* The header functions
\* ------------------------------------------------------------------------
\* str.lower() on a column name
RECURSIVE LowerStr(_)
LowerStr(s) ==
    IF s = "" THEN "" ELSE LowerChar(SubSeq(s, 1, 1)) \o LowerStr(Tail(s))

\* make_headers_lowercase(df) on df.columns; of the white space that
\* strip() removes, the header rows below hold blanks only
MakeHeadersLowercase(cols) ==
    [i \in DOMAIN cols |->
        StripChars(StripChars(LowerStr(cols[i]), {" "}), {"*"})]

\* x in df.columns
HasColumn(cols, x) == \E i \in DOMAIN cols : cols[i] = x

\* df[x] = ...: the column is appended unless it exists
WithColumn(cols, x) == IF HasColumn(cols, x) THEN cols ELSE Append(cols, x)

\* make_first_last(df) on df.columns: [cols, err]
MakeFirstLast(cols) ==
    LET renamed == [i \in DOMAIN cols |->
                      Replace(Replace(cols[i], "given", "first"),
                              "family", "last")]
        nodonor == [i \in DOMAIN cols |-> Replace(renamed[i], "donor ", "")]
    IN  IF HasColumn(renamed, "name") \/ HasColumn(renamed, "donor")
        THEN [cols |-> WithColumn(WithColumn(renamed, "first name"),
                                  "last name"),
              err |-> None]
        ELSE IF ~HasColumn(nodonor, "first name")
        THEN [cols |-> nodonor, err |-> "ValueError: No name in header"]
        ELSE [cols |-> nodonor, err |-> None]

\* the column renaming of unify_email and of unify_phone
EmailHeader(x) == IF Contains(x, "email") THEN "email" ELSE x
PhoneHeader(x) == IF Contains(x, "phone") THEN "phone" ELSE x

\* the three rewrites of zip_to_zipcode on one column name
ZipName(x) ==
    Replace(Replace(Replace(Replace(x, "zip", "zipcode"), "/postal code", ""),
                    "postal code", "zipcode"),
            "/province", "")

\* zip_to_zipcode(df) on df.columns
ZipToZipcode(cols) == [i \in DOMAIN cols |-> ZipName(cols[i])]

\* lines 266 to 270 of main() on the header row: [cols, err]
HeaderFunctions(h) ==
    LET m == MakeFirstLast(MakeHeadersLowercase(h))
    IN  IF m.err # None THEN m
        ELSE [cols |-> ZipToZipcode([i \in DOMAIN m.cols |->
                                       PhoneHeader(EmailHeader(m.cols[i]))]),
              err |-> None]

\* header rows of source tables
RawHeaders ==
    { <<"First Name", "Last Name">>,
      <<"*First Name ", "*Last Name", "Email Address", "Phone Number">>,
      <<"Name", "Email", "Phone">>,
      <<"Given Name", "Family Name", "Email", "Phone", "Address", "City",
        "State/Province", "Zip/Postal Code">>,
      <<"Donor First Name", "Donor Last Name", "Email", "Phone", "Address 1",
        "Address 2", "City", "State", "Zip">>,
      <<"First Name", "Last Name", "Email", "Phone",
        "Billing Address", "Billing City", "Billing State", "Billing Zip",
        "Home Address", "Home City", "Home State", "Home Zip">>,
      <<"Contact", "Email">>,
      <<"Last Name", "Email", "Phone">>,
      <<"Full Name", "Phone">> }

\* the rows a table with columns cols can hold
TableRows(cols) ==
    { r \in Rows : DOMAIN r = { Split(cols[i], " ") : i \in DOMAIN cols } }

\* ------------------------------------------------------------------------
\* main
\* ------------------------------------------------------------------------
\* str.strip() on an email or phone cell; the cells used have no blanks
\* around them, except the cell that is one blank
StripCell(v) == IF v = " " THEN "" ELSE v

\* row["email"] if "email" in row.index else ""
CellOr(r, col) == IF col \in DOMAIN r THEN r[col] ELSE ""

\* the body of the loop over curr.iterrows(): table.add for the channels,
\* then add_addresses
IngestRow(d, r, order) ==
    LET a == Call(<<r[<<"first", "name">>], r[<<"last", "name">>]>>,
                  <<StripCell(CellOr(r, <<"email">>)),
                    StripCell(CellOr(r, <<"phone">>))>>,
                  NoAddress)
        t == TableAdd(d, a)
    IN  IF t.err # None THEN t ELSE AddAddresses(t, r, order)

\* DataFrame.replace("", np.nan) on one table row
ReplaceEmpty(rec) ==
    [c \in DOMAIN rec |->
        IF c <= 2 THEN (IF rec[c] = <<>> THEN NaNName ELSE rec[c])
                  ELSE (IF rec[c] = "" THEN NaN ELSE rec[c])]

\* pandas isna on cell c of a table row
IsNA(rec, c) == IF c <= 2 THEN rec[c] = NaNName ELSE rec[c] \in {None, NaN}

\* dropna on the names with how="any"
DropEmptyAnyName(d) ==
    LET HasContact(rec) == \E c \in 3..Len(COLUMNS) : ~IsNA(rec, c)
        HasNames(rec) == \A c \in 1..2 : ~IsNA(rec, c)
    IN  SelectSeq(SelectSeq(d, HasContact), HasNames)

\* dropna(how="all", subset=columns[2:]), then subset=columns[:2]
DropEmpty(d) ==
    LET HasContact(rec) == \E c \in 3..Len(COLUMNS) : ~IsNA(rec, c)
        HasName(rec) == \E c \in 1..2 : ~IsNA(rec, c)
    IN  SelectSeq(SelectSeq(d, HasContact), HasName)

\* to_csv: a missing value is written as the empty field
CsvRow(rec) ==
    [c \in DOMAIN rec |->
        IF IsNA(rec, c) THEN (IF c <= 2 THEN <<>> ELSE "") ELSE rec[c]]

\* main() after the loop: the table as left in table.data
PostProcess(d) == DropEmpty([i \in DOMAIN d |-> ReplaceEmpty(d[i])])

\* the file main() writes
Written(d) == [i \in DOMAIN PostProcess(d) |-> CsvRow(PostProcess(d)[i])]

\* some cell of the row other than the names is non-empty
HasContactCell(r) ==
    \E col \in DOMAIN r :
       /\ col \notin {<<"first", "name">>, <<"last", "name">>, <<"name">>}
       /\ r[col] # ""

\* the head of the file loop of main(): the next file is read and the
\* header functions are applied
OpenTable ==
    /\ pc = "ingest"
    /\ ntables < MaxTables
    /\ \E h \in RawHeaders :
          LET m == HeaderFunctions(h)
          IN  /\ header' = h
              /\ columns' = m.cols
              /\ err' = m.err
              /\ pc' = IF m.err = None THEN "ingest" ELSE "failed"
    /\ ntables' = ntables + 1
    /\ UNCHANGED <<data, out, ncalls, call, changed, observed, nrows, row,
                   final, informed, dataB, finalB, table, curr, pos,
                   napplied, files, ordered>>

\* one iteration of the row loop of main(), on a row of the open table
ProcessRow ==
    /\ pc = "ingest"
    /\ nrows < MaxRows
    /\ \E r \in TableRows(columns) : \E order \in Orders(GroupNames(r)) :
          LET t == IngestRow(data, r, order)
          IN  /\ data' = t.data
              /\ out' = t.out
              /\ err' = t.err
              /\ pc' = IF t.err = None THEN "ingest" ELSE "failed"
              /\ row' = r
              /\ informed' =
                    IF HasContactCell(r)
                    THEN informed \cup
                           {Key(r[<<"first", "name">>], r[<<"last", "name">>])}
                    ELSE informed
    /\ nrows' = nrows + 1
    /\ UNCHANGED <<ncalls, call, changed, observed, final, dataB, finalB>>
    /\ UNCHANGED <<currvars, purevars>>

\* the end of main(): drop the rows without contact information, write
Finish ==
    /\ pc = "ingest"
    /\ data' = PostProcess(data)
    /\ final' = Written(data)
    /\ pc' = "done"
    /\ UNCHANGED <<out, err, ncalls, call, changed, observed, nrows, row,
                   informed, dataB, finalB>>
    /\ UNCHANGED <<currvars, purevars>>

NextMain == OpenTable \/ ProcessRow \/ Finish

SpecMain == Init /\ [][NextMain]_vars

\* two runs of main() ingest the same row; each run's for loop over the set
\* of address names visits it in its own order
ProcessRowTwice ==
    /\ pc = "ingest"
    /\ nrows < MaxRows
    /\ \E r \in Rows :
       \E order \in Orders(GroupNames(r)), orderB \in Orders(GroupNames(r)) :
          LET t == IngestRow(data, r, order)
              tB == IngestRow(dataB, r, orderB)
          IN  /\ data' = t.data
              /\ dataB' = tB.data
              /\ out' = t.out
              /\ err' = t.err
              /\ pc' = IF t.err = None /\ tB.err = None
                       THEN "ingest" ELSE "failed"
              /\ row' = r
    /\ nrows' = nrows + 1
    /\ UNCHANGED <<ncalls, call, changed, observed, final, informed, finalB>>
    /\ UNCHANGED <<currvars, purevars>>

\* both runs finish
FinishTwice ==
    /\ pc = "ingest"
    /\ data' = PostProcess(data)
    /\ dataB' = PostProcess(dataB)
    /\ final' = Written(data)
    /\ finalB' = Written(dataB)
    /\ pc' = "done"
    /\ UNCHANGED <<out, err, ncalls, call, changed, observed, nrows, row,
                   informed>>
    /\ UNCHANGED <<currvars, purevars>>

NextRuns == ProcessRowTwice \/ FinishTwice

SpecRuns == Init /\ [][NextRuns]_vars

\* ------------------------------------------------------------------------
\* zip_to_zipcode
\* ------------------------------------------------------------------------
\* the lower-cased group prefixes of the header rows
ZipPrefixes == {"", "billing ", "home "}

\* lower-cased column names of source tables
ZipHeaders ==
    { pre \o x : pre \in ZipPrefixes,
                 x \in {"zip", "postal code", "zip/postal code", "zipcode",
                        "state", "state/province", "city"} }

\* header rows of one or two columns
ZipHeaderRows ==
    { <<x>> : x \in ZipHeaders } \cup
    { <<x, y>> : x \in ZipHeaders, y \in {"zip", "billing zipcode", "city"} }

InitZip ==
    /\ StartOfRun
    /\ NoTable
    /\ columns \in ZipHeaderRows
    /\ napplied = 0
    /\ files = <<>>
    /\ ordered = <<>>

\* one call zip_to_zipcode(df)
ApplyZip ==
    /\ napplied < MaxApplied
    /\ columns' = ZipToZipcode(columns)
    /\ napplied' = napplied + 1
    /\ UNCHANGED <<tablevars, mainvars, currvars, files, ordered>>

NextZip == ApplyZip

SpecZip == InitZip /\ [][NextZip]_vars

\* ------------------------------------------------------------------------
\* format_phone, unify_phone and the row loop of main() over one table
\* ------------------------------------------------------------------------
IsDigit(c) == c \in {"0", "1", "2", "3", "4", "5", "6", "7", "8", "9"}

\* re.sub("\D", "", s)
RECURSIVE Digits(_)
Digits(s) ==
    IF s = "" THEN ""
    ELSE IF IsDigit(SubSeq(s, 1, 1)) THEN SubSeq(s, 1, 1) \o Digits(Tail(s))
    ELSE Digits(Tail(s))

\* s.count(c)
RECURSIVE CountChar(_, _)
CountChar(s, c) ==
    IF s = "" THEN 0
    ELSE (IF SubSeq(s, 1, 1) = c THEN 1 ELSE 0) + CountChar(Tail(s), c)

\* s[a:b]
Slice(s, a, b) ==
    IF a >= Len(s) \/ a >= b THEN ""
    ELSE SubSeq(s, a + 1, IF b < Len(s) THEN b ELSE Len(s))

\* format_phone(phone)
FormatPhone(phone) ==
    LET formatted == Digits(phone)
    IN  IF formatted = "" THEN ""
        ELSE Slice(formatted, 0, 3) \o "-" \o Slice(formatted, 3, 6) \o "-" \o
             Slice(formatted, 6, Len(formatted))

\* the name unify_phone gives column x
PhoneName(x) == IF "phone" \in Words(x) THEN <<"phone">> ELSE x

\* row r under the column names of unify_phone
RenamePhone(r) ==
    [c \in { PhoneName(x) : x \in DOMAIN r } |->
        r[CHOOSE x \in DOMAIN r : PhoneName(x) = c]]

\* x.count("(") > 1 on the phone cell of an indexed row
TwoNums(e) == CountChar(e.row[<<"phone">>], "(") > 1

\* x[:15]
First15(x) == Slice(x, 0, 15)

\* df2: the rows with two numbers, their phone cell cut down to the digits
\* from character 15 on
SecondNumbers(df) ==
    LET df2 == SelectSeq(df, TwoNums)
    IN  [i \in DOMAIN df2 |->
           [df2[i] EXCEPT !.row[<<"phone">>] = Digits(Slice(@, 15, Len(@)))]]

\* df after line 105: every phone cell cut down to its first 15 characters
FirstNumbers(df) ==
    [i \in DOMAIN df |-> [df[i] EXCEPT !.row[<<"phone">>] = First15(@)]]

\* unify_phone(df).  A row is [index, row]: index is the label the row has
\* in df.index, which df2 keeps and append(ignore_index=True) then drops
UnifyPhone(df) ==
    LET renamed == [i \in DOMAIN df |-> [df[i] EXCEPT !.row = RenamePhone(@)]]
    IN  IF \A i \in DOMAIN renamed : <<"phone">> \notin DOMAIN renamed[i].row
        THEN renamed
        ELSE LET combined == FirstNumbers(renamed) \o SecondNumbers(renamed)
             IN  [i \in DOMAIN combined |->
                    [combined[i] EXCEPT !.row[<<"phone">>] = FormatPhone(@)]]

\* the table as read: row i has index label i
Indexed(t) == [i \in DOMAIN t |-> [index |-> i, row |-> t[i]]]

\* raw phone cells
PhoneCells ==
    { "", "n/a", "(555) 123-4567", "(555) 123-4567 ext 2", "555.123.4567",
      "(555) 123-4567 (555) 987-6543", "(555) 123-4567 (555) 987-6543 cell" }

\* the rows of a table with a "phone number" column, of a table with a
\* "phone" column and an address, and of a table without phone column
PhoneShapes ==
    { { NameCells(np) @@ (<<"phone", "number">> :> x) :
           np \in RowNamePairs, x \in PhoneCells },
      { NameCells(np) @@ (<<"phone">> :> x) @@
        GroupCells(<<>>, <<"a1", "c1", "s1", "z1">>) :
           np \in RowNamePairs, x \in PhoneCells },
      { NameCells(np) @@ (<<"email">> :> e) :
           np \in RowNamePairs, e \in {"", "e1"} } }

\* the source tables: one to MaxRows rows of one shape
PhoneTables ==
    UNION { UNION { [1..n -> shape] : n \in 1..MaxRows } : shape \in PhoneShapes }

InitPhone ==
    /\ StartOfRun
    /\ header = <<>>
    /\ ntables = 0
    /\ table \in PhoneTables
    /\ curr = <<>>
    /\ pos = 1
    /\ columns = <<>>
    /\ napplied = 0
    /\ files = <<>>
    /\ ordered = <<>>

\* curr = unify_phone(curr)
Unify ==
    /\ curr = <<>>
    /\ curr' = UnifyPhone(Indexed(table))
    /\ UNCHANGED <<tablevars, mainvars, header, ntables, table, pos, purevars>>

\* one iteration of the loop over curr.iterrows()
IngestNext ==
    /\ pc = "ingest"
    /\ curr # <<>>
    /\ pos <= Len(curr)
    /\ \E order \in Orders(GroupNames(curr[pos].row)) :
          LET t == IngestRow(data, curr[pos].row, order)
          IN  /\ data' = t.data
              /\ out' = t.out
              /\ err' = t.err
              /\ pc' = IF t.err = None THEN "ingest" ELSE "failed"
    /\ row' = curr[pos].row
    /\ nrows' = nrows + 1
    /\ pos' = pos + 1
    /\ UNCHANGED <<ncalls, call, changed, observed, final, informed, dataB,
                   finalB, header, ntables, table, curr, purevars>>

NextPhone == Unify \/ IngestNext

SpecPhone == InitPhone /\ [][NextPhone]_vars

\* ------------------------------------------------------------------------
\* get_files_in_chron_order
\* ------------------------------------------------------------------------
\* the characters the pattern [A-z] matches: the letters and the
\* characters between "Z" and "a"
AtoZ == { SubSeq(Ascii, i, i) : i \in Ord("A")..Ord("z") }

\* the sort key of file f: (noletters.strip("-"), f), or "IndexError" when
\* f has no underscore
SortKey(f) ==
    IF Len(Split(f, "_")) < 2 THEN "IndexError"
    ELSE LET stem == RStrip(Split(f, "_")[2], {".", "c", "s", "v"})
             noletters == Without(stem, AtoZ)
         IN  <<StripChars(noletters, {"-"}), f>>

\* k1 < k2 on the (str, str) tuples
KeyLess(k1, k2) ==
    StrLess(k1[1], k2[1]) \/ (k1[1] = k2[1] /\ StrLess(k1[2], k2[2]))

\* sorted(tosort): insertion of key k into the sorted list l
RECURSIVE Insert(_, _)
Insert(l, k) ==
    IF l = <<>> THEN <<k>>
    ELSE IF KeyLess(k, Head(l)) THEN <<k>> \o l
    ELSE <<Head(l)>> \o Insert(Tail(l), k)

RECURSIVE SortedKeys(_)
SortedKeys(l) ==
    IF l = <<>> THEN <<>>
    ELSE Insert(SortedKeys(SubSeq(l, 1, Len(l) - 1)), l[Len(l)])

\* get_files_in_chron_order, given what glob returned
GetFilesInChronOrder(fs) ==
    LET tosort == [i \in DOMAIN fs |-> SortKey(fs[i])]
        sorted == SortedKeys(tosort)
    IN  [i \in DOMAIN sorted |-> sorted[i][2]]

\* directories given on the command line
CsvDirs == {"csv", "my_csv"}

\* year labels of the file names
YearLabels == {"2018", "2018-19", "2018-2019", "2019"}

\* the path of the csv file written for sheet 1 of the file "d<label>"
CsvPath(dir, label) == dir \o "/1_d" \o label \o ".csv"

\* the listings glob can return: up to MaxFiles files of one directory, in
\* any order
Listings ==
    { [i \in DOMAIN l |-> CsvPath(dir, l[i])] :
        dir \in CsvDirs,
        l \in { m \in UNION { [1..n -> YearLabels] : n \in 1..MaxFiles } :
                   \A i, j \in DOMAIN m : i # j => m[i] # m[j] } }

InitFiles ==
    /\ StartOfRun
    /\ NoTable
    /\ columns = <<>>
    /\ napplied = 0
    /\ files \in Listings
    /\ ordered = <<>>

\* the call get_files_in_chron_order(args.csvdir)
SortFiles ==
    /\ ordered = <<>>
    /\ \A i \in DOMAIN files : SortKey(files[i]) # "IndexError"
    /\ ordered' = GetFilesInChronOrder(files)
    /\ UNCHANGED <<tablevars, mainvars, currvars, columns, napplied, files>>

NextFiles == SortFiles

SpecFiles == InitFiles /\ [][NextFiles]_vars

\* ------------------------------------------------------------------------
\* Properties of Table.add
\* ------------------------------------------------------------------------
\* the rows of d that belong to identity key k
RowsOf(d, k) == { i \in 1..Len(d) : Key(d[i][1], d[i][2]) = k }

\* the step is a call that returned, on an identity that had a row
MergingCall == /\ ncalls' = ncalls + 1
               /\ err' = None
               /\ RowsOf(data, Key(call'.first, call'.last)) # {}

\* the row of the identity of the call of this step
CallRow == FirstIndex(RowsOf(data, Key(call'.first, call'.last)))

\* C1: after any sequence of add calls no two rows have the same identity
\* key, and add has never raised "multiple entries exist".
OneRecordPerKey ==
    /\ \A i, j \in 1..Len(data) :
          Key(data[i][1], data[i][2]) = Key(data[j][1], data[j][2]) => i = j
    /\ err = None

\* a second call, spelled differently, was merged into the one existing row
OneRecordPerKeyWitness ==
    /\ ncalls = 2
    /\ Len(data) = 1
    /\ call.first # data[1][1]
    /\ Key(call.first, call.last) = Key(data[1][1], data[1][2])
    /\ changed

\* str.strip() on a name: leading and trailing blanks removed
RECURSIVE Strip(_)
Strip(s) ==
    IF s = <<>> THEN s
    ELSE IF Head(s) = " " THEN Strip(Tail(s))
    ELSE IF s[Len(s)] = " " THEN Strip(SubSeq(s, 1, Len(s) - 1))
    ELSE s

\* the identity key as the specification describes it: trimmed, lower-cased
TrimmedKey(first, last) == <<Lower(Strip(first)), Lower(Strip(last))>>

\* C2: a call whose names differ from an existing row's names only in letter
\* case or in leading/trailing whitespace resolves to that row: when the row
\* has no phone yet and the call passes a phone only, the table has exactly one
\* row for these names, holding the email it had and the phone of the call.
TrimmedCaseInsensitiveMatch ==
    [][ (ncalls' = ncalls + 1 /\ Truthy(call'.phone) /\ call'.email = None) =>
          \A i \in 1..Len(data) :
             ( /\ TrimmedKey(data[i][1], data[i][2])
                    = TrimmedKey(call'.first, call'.last)
               /\ ~Truthy(GetItem(data, i, 3)) )
             => /\ { j \in 1..Len(data') :
                       TrimmedKey(data'[j][1], data'[j][2])
                         = TrimmedKey(call'.first, call'.last) } = {i}
                /\ GetItem(data', i, 2) = GetItem(data, i, 2)
                /\ GetItem(data', i, 3) = call'.phone ]_vars

\* C3 (state part): the primary slot holds the first non-empty value passed
\* for the identity, the alternate slot the first later value that differs
\* from it, for email and for phone.
SlotsFollowObservations ==
    \A i \in 1..Len(data) :
       LET o == observed[Key(data[i][1], data[i][2])]
       IN  /\ IF o.email1 = None THEN ~Truthy(GetItem(data, i, 2))
                                 ELSE GetItem(data, i, 2) = o.email1
           /\ GetItem(data, i, -2) = o.email2
           /\ IF o.phone1 = None THEN ~Truthy(GetItem(data, i, 3))
                                 ELSE GetItem(data, i, 3) = o.phone1
           /\ GetItem(data, i, -1) = o.phone2

\* the call of this step passes a value for the channel with slots c (primary)
\* and ca (alternate) that differs from the two values held
ThirdValue(v, c, ca) ==
    /\ MergingCall
    /\ Truthy(v)
    /\ Truthy(GetItem(data, CallRow, c))
    /\ GetItem(data, CallRow, ca) # None
    /\ v # GetItem(data, CallRow, c)
    /\ v # GetItem(data, CallRow, ca)

\* C3 (step part): a value that differs from both held values is reported,
\* is stored in no slot of the identity's row and leaves both slots unchanged.
ThirdValueReported ==
    /\ ThirdValue(call'.email, 2, -2) =>
          /\ \E m \in 1..Len(out') :
                out'[m] = <<"Two emails already exist for",
                            call'.first, call'.last, call'.email>>
          /\ GetItem(data', CallRow, 2) = GetItem(data, CallRow, 2)
          /\ GetItem(data', CallRow, -2) = GetItem(data, CallRow, -2)
          /\ \A c \in {2, 3, -2, -1} :
                GetItem(data', CallRow, c) # call'.email
    /\ ThirdValue(call'.phone, 3, -1) =>
          /\ \E m \in 1..Len(out') :
                out'[m] = <<"Two phone numbers already exist for",
                            call'.first, call'.last, call'.phone>>
          /\ GetItem(data', CallRow, 3) = GetItem(data, CallRow, 3)
          /\ GetItem(data', CallRow, -1) = GetItem(data, CallRow, -1)
          /\ \A c \in {2, 3, -2, -1} :
                GetItem(data', CallRow, c) # call'.phone

\* C3: primary-then-alternate slot filling, for email and for phone: the
\* first non-empty value observed is the primary, the first later differing
\* value the alternate, every later value differing from both is reported
\* with a conflict message, stored nowhere, and both slots stay as they are.
PrimaryThenAlternate ==
    []SlotsFollowObservations /\ [][ThirdValueReported]_vars

\* three different emails were passed for one identity; the third was
\* reported and the first two are the primary and the alternate
PrimaryThenAlternateWitness ==
    /\ ncalls = 3
    /\ Len(data) = 1
    /\ call.email = "e3"
    /\ GetItem(data, 1, 2) = "e1"
    /\ GetItem(data, 1, -2) = "e2"
    /\ out = << <<"Two emails already exist for",
                  call.first, call.last, "e3">> >>

\* the four address cells of row i
AddressOf(d, i) ==
    <<GetItem(d, i, 4), GetItem(d, i, 5), GetItem(d, i, 6), GetItem(d, i, 7)>>

\* C4 (state part): the four address cells are the four address arguments of
\* the most recent call for the identity that passed a non-empty address.
AddressIsLatestObservation ==
    \A i \in 1..Len(data) :
       LET o == observed[Key(data[i][1], data[i][2])]
       IN  o.addr # <<>> => AddressOf(data, i) = o.addr

\* C4 (step part): a call with an absent or empty address leaves the stored
\* address cells untouched.
NoAddressKeepsAddress ==
    (MergingCall /\ ~Truthy(call'.address)) =>
        AddressOf(data', CallRow) = AddressOf(data, CallRow)

\* C4: the stored address is that of the most recent call with a non-empty
\* address, all four cells from that one call; calls without an address
\* leave it untouched.
AddressOverwrittenAsUnit ==
    []AddressIsLatestObservation /\ [][NoAddressKeepsAddress]_vars

\* a row created without an address got address a1, then a2 with an empty
\* state: the row shows a2's cells, the empty state included
AddressOverwrittenAsUnitWitness ==
    /\ ncalls = 3
    /\ Len(data) = 1
    /\ call.address = "a2"
    /\ changed
    /\ Truthy(GetItem(data, 1, 2))
    /\ AddressOf(data, 1) = <<"a2", "c2", "", "z2">>

\* the value v passed for a channel is absent, or is one the row holds
AbsentOrHeld(v, c, ca) ==
    \/ ~Truthy(v)
    \/ v = GetItem(data, CallRow, c)
    \/ v = GetItem(data, CallRow, ca)

\* C8: a call that passes an email and/or a phone already held in the
\* identity's primary or alternate slot (and no address) leaves the whole
\* table unchanged and prints no conflict message.
HeldValueIsNoOp ==
    [][ ( /\ MergingCall
          /\ Truthy(call'.email) \/ Truthy(call'.phone)
          /\ AbsentOrHeld(call'.email, 2, -2)
          /\ AbsentOrHeld(call'.phone, 3, -1)
          /\ ~Truthy(call'.address) )
        => (data' = data /\ out' = <<>>) ]_vars

\* a call passed the email held in the alternate slot: nothing changed,
\* nothing was printed
HeldValueIsNoOpWitness ==
    /\ ncalls = 3
    /\ Len(data) = 1
    /\ ~changed
    /\ out = <<>>
    /\ Truthy(call.email)
    /\ call.email = GetItem(data, 1, -2)
    /\ call.email # GetItem(data, 1, 2)

\* the four contact channel slots, as iloc column numbers
ChannelSlots == {2, 3, -2, -1}

\* C9: a channel slot that holds a non-empty value keeps exactly that value
\* across every later call; no call removes the row either.
OccupiedSlotKept ==
    [][ /\ Len(data') >= Len(data)
        /\ \A i \in 1..Len(data) : \A c \in ChannelSlots :
              Truthy(GetItem(data, i, c)) =>
                 GetItem(data', i, c) = GetItem(data, i, c) ]_vars

\* both phone slots were occupied and a call passed a third phone number
OccupiedSlotKeptWitness ==
    /\ ncalls = 3
    /\ Len(data) = 1
    /\ Truthy(call.phone)
    /\ Truthy(GetItem(data, 1, 3))
    /\ Truthy(GetItem(data, 1, -1))
    /\ call.phone # GetItem(data, 1, 3)
    /\ call.phone # GetItem(data, 1, -1)

\* C10: a call that passes neither email nor phone, on an identity that has
\* a row, leaves the four channel slots of that row unchanged.
AddressOnlyKeepsChannels ==
    [][ (MergingCall /\ call'.email = None /\ call'.phone = None) =>
          \A c \in ChannelSlots :
             GetItem(data', CallRow, c) = GetItem(data, CallRow, c) ]_vars

\* an address-only call wrote its address into a row whose primary phone is
\* the empty string and whose email is set
AddressOnlyKeepsChannelsWitness ==
    /\ ncalls >= 2
    /\ call.email = None /\ call.phone = None
    /\ Truthy(call.address)
    /\ changed
    /\ \E i \in 1..Len(data) :
          /\ Key(data[i][1], data[i][2]) = Key(call.first, call.last)
          /\ GetItem(data, i, 3) = ""
          /\ AddressOf(data, i)[1] = call.address

\* C16: a call removes no row, changes the stored first and last name of no
\* row (the spelling first stored is kept) and modifies no row other than the
\* one whose identity key is that of the call.
AddTouchesOnlyItsRow ==
    [][ ncalls' = ncalls + 1 =>
          /\ Len(data') >= Len(data)
          /\ \A i \in 1..Len(data) :
                /\ data'[i][1] = data[i][1]
                /\ data'[i][2] = data[i][2]
                /\ Key(data[i][1], data[i][2]) # Key(call'.first, call'.last)
                      => data'[i] = data[i] ]_vars

\* with two rows in the table, a call spelled differently from the first
\* row's names modified that row
AddTouchesOnlyItsRowWitness ==
    /\ ncalls = 3
    /\ Len(data) = 2
    /\ changed
    /\ Key(call.first, call.last) = Key(data[1][1], data[1][2])
    /\ call.first # data[1][1]

\* ------------------------------------------------------------------------
\* Properties of add_addresses and main
\* ------------------------------------------------------------------------
\* the row has an address group and every cell of its groups is empty
EmptyAddressGroups(r) ==
    /\ AddressNames(r) # {}
    /\ \A col \in DOMAIN r :
          col \notin {<<"first", "name">>, <<"last", "name">>,
                      <<"email">>, <<"phone">>} => r[col] = ""

\* C5: ingesting a row whose address-group cells are all empty ("address 1"
\* and "address 2" included) raises no error and leaves the street, city,
\* state and zip already stored for the person unchanged.
EmptyGroupIsNoObservation ==
    [][ (nrows' = nrows + 1 /\ EmptyAddressGroups(row')) =>
          /\ err' = None
          /\ \A i \in RowsOf(data, Key(row'[<<"first", "name">>],
                                       row'[<<"last", "name">>])) :
                Truthy(GetItem(data, i, 4)) =>
                   AddressOf(data', i) = AddressOf(data, i) ]_vars

\* C6: once the output is written, it has no row for a person for whom no
\* row ever had a non-empty email, phone or address cell.
NameOnlyPersonDropped ==
    pc = "done" =>
       \A i \in 1..Len(final) : Key(final[i][1], final[i][2]) \in informed

\* C7: two runs over the same rows in the same order write the same table.
RunsAgree == pc = "done" => final = finalB

\* ------------------------------------------------------------------------
\* Properties of zip_to_zipcode
\* ------------------------------------------------------------------------
\* the canonical zip column names
CanonicalZip == { pre \o "zipcode" : pre \in ZipPrefixes }

\* the zip and postal-code spellings that fold to pre \o "zipcode"
ZipSpellings(pre) ==
    { pre \o x : x \in {"zip", "postal code", "zip/postal code"} }

\* C18: zip_to_zipcode maps "zip", "postal code" and "zip/postal code", with
\* or without a group prefix, to "<prefix>zipcode", leaves a name that is
\* already canonical unchanged, and applied a second time changes nothing.
ZipFoldingIdempotent ==
    [][ napplied' = napplied + 1 =>
          /\ \A i \in DOMAIN columns :
                /\ \A pre \in ZipPrefixes :
                      columns[i] \in ZipSpellings(pre)
                         => columns'[i] = pre \o "zipcode"
                /\ columns[i] \in CanonicalZip => columns'[i] = columns[i]
          /\ napplied >= 1 => columns' = columns ]_vars

\* ------------------------------------------------------------------------
\* Properties of get_files_in_chron_order
\* ------------------------------------------------------------------------
\* the year label in the name of file f
LabelOf(f) ==
    CHOOSE label \in YearLabels : \E dir \in CsvDirs : f = CsvPath(dir, label)

\* the place of a label in time: 2018, then the labels 2018-.., then 2019
YearRank(label) ==
    CASE label = "2018" -> 1
      [] label = "2018-19" -> 2
      [] label = "2018-2019" -> 2
      [] label = "2019" -> 3

\* C15: whatever order the directory listing has, the files are returned in
\* ascending order of their year label: "2018" before "2018-19" and
\* "2018-2019", and these before "2019".
FilesInYearOrder ==
    ordered # <<>> =>
       /\ Len(ordered) = Len(files)
       /\ { ordered[i] : i \in DOMAIN ordered } = { files[i] : i \in DOMAIN files }
       /\ \A i, j \in DOMAIN ordered :
             i < j => YearRank(LabelOf(ordered[i])) <= YearRank(LabelOf(ordered[j]))

\* ------------------------------------------------------------------------
\* Properties of unify_phone and the row loop
\* ------------------------------------------------------------------------
\* the raw phone cell of source row i
RawPhone(i) == table[i][CHOOSE x \in DOMAIN table[i] : "phone" \in Words(x)]

\* the table has a phone column and unify_phone has returned
PhonesUnified ==
    /\ curr # <<>>
    /\ \E x \in DOMAIN table[1] : "phone" \in Words(x)

\* the positions of curr that hold a row made from source row i
MadeFrom(i) == { k \in DOMAIN curr : curr[k].index = i }

\* row r without its phone cell
OtherCells(r) == [c \in DOMAIN r \ {<<"phone">>} |-> r[c]]

\* C12: a row whose raw phone cell has more than one "(" yields exactly two
\* rows, one with the formatted first 15 characters and one with the
\* formatted rest, all other cells as in the source row; a row with at most
\* one "(" yields exactly one row.
DoubleNumberFanOut ==
    PhonesUnified =>
       \A i \in DOMAIN table :
          /\ \A k \in MadeFrom(i) :
                OtherCells(curr[k].row) = OtherCells(RenamePhone(table[i]))
          /\ IF CountChar(RawPhone(i), "(") > 1
             THEN \E k, m \in MadeFrom(i) :
                     /\ k # m
                     /\ MadeFrom(i) = {k, m}
                     /\ curr[k].row[<<"phone">>] =
                           FormatPhone(Slice(RawPhone(i), 0, 15))
                     /\ curr[m].row[<<"phone">>] =
                           FormatPhone(Slice(RawPhone(i), 15, Len(RawPhone(i))))
             ELSE Cardinality(MadeFrom(i)) = 1

DoubleNumberFanOutWitness ==
    /\ PhonesUnified
    /\ Len(table) = 2
    /\ RawPhone(2) = "(555) 123-4567 (555) 987-6543 cell"
    /\ CountChar(RawPhone(1), "(") = 1
    /\ Len(curr) = 3
    /\ curr[2].row[<<"phone">>] = "555-123-4567"
    /\ curr[3].row[<<"phone">>] = "555-987-6543"
    /\ pos = 4

\* s is written "(ddd) ddd-dddd", then nothing or text that starts with a
\* character other than a digit
OneNumberThenText(s) ==
    /\ Len(s) >= 14
    /\ SubSeq(s, 1, 1) = "(" /\ SubSeq(s, 5, 6) = ") " /\ SubSeq(s, 10, 10) = "-"
    /\ \A p \in {2, 3, 4, 7, 8, 9, 11, 12, 13, 14} : IsDigit(SubSeq(s, p, p))
    /\ Len(s) > 14 => ~IsDigit(SubSeq(s, 15, 15))

\* C13: unify_phone turns a cell "(ddd) ddd-dddd" followed by extension text
\* into "ddd-ddd-dddd", and a cell without digit into the empty string.
PhoneCanonicalized ==
    PhonesUnified =>
       \A i \in DOMAIN table :
          LET x == RawPhone(i)
              y == curr[i].row[<<"phone">>]
          IN  /\ curr[i].index = i
              /\ OneNumberThenText(x) =>
                    y = SubSeq(x, 2, 4) \o "-" \o SubSeq(x, 7, 9) \o "-" \o
                        SubSeq(x, 11, 14)
              /\ (\A p \in 1..Len(x) : ~IsDigit(SubSeq(x, p, p))) => y = ""

PhoneCanonicalizedWitness ==
    /\ PhonesUnified
    /\ Len(table) = 2
    /\ RawPhone(1) = "(555) 123-4567 ext 2"
    /\ curr[1].row[<<"phone">>] = "555-123-4567"
    /\ RawPhone(2) = "n/a"
    /\ curr[2].row[<<"phone">>] = ""
    /\ pos = 3

\* C14: in one source table, the rows made from source row i are all
\* ingested before any row made from a later source row.
RowsIngestedInSourceOrder ==
    \A k, m \in 1..(pos - 1) : k < m => curr[k].index <= curr[m].index

\* ------------------------------------------------------------------------
\* Properties of the file loop and the end of main()
\* ------------------------------------------------------------------------
\* header row h has no column that reads as a first name
NoFirstNameColumn(h) ==
    \A i \in DOMAIN h :
       MakeHeadersLowercase(h)[i] \notin
          {"first name", "given name", "donor first name", "name", "donor"}

\* C11: when a source table without first-name column is opened, the run
\* fails at once: the table store stays as the earlier tables left it, no
\* later table is opened, no row is ingested and no output is written.
MissingNameAborts ==
    [][ /\ (ntables' = ntables + 1 /\ NoFirstNameColumn(header')) =>
              /\ pc' = "failed"
              /\ err' = "ValueError: No name in header"
              /\ data' = data
              /\ final' = <<>>
        /\ (pc = "failed" /\ NoFirstNameColumn(header)) =>
              /\ pc' = "failed"
              /\ data' = data
              /\ final' = <<>>
              /\ ntables' = ntables
              /\ nrows' = nrows ]_vars

MissingNameAbortsWitness ==
    /\ pc = "failed"
    /\ err = "ValueError: No name in header"
    /\ ntables = 2
    /\ NoFirstNameColumn(header)
    /\ nrows >= 1
    /\ Len(data) >= 1
    /\ final = <<>>

\* the record holds an email, phone, address, city, state or zip value
HasContactValue(rec) == \E c \in 3..8 : rec[c] \notin {None, ""}

\* both names of the record are empty
Nameless(rec) == rec[1] = <<>> /\ rec[2] = <<>>

\* the record as a line of the output file
Shown(rec) ==
    [c \in DOMAIN rec |-> IF c > 2 /\ rec[c] = None THEN "" ELSE rec[c]]

InFinal(rec, f) == \E j \in DOMAIN f : f[j] = Shown(rec)

====
